---- MODULE Spec2Model ----
(***************************************************************************)
(* Model of src/app.py: the geocoding (Realtor, OSM, Google, with the      *)
(* session flag that disables the Realtor auto-complete), the comps fetch  *)
(* (retry with backoff, session cache, radius widening, de-duplication)    *)
(* and the risk model (subject_from_comps, classify_risk).                 *)
(*                                                                         *)
(* Numbers.  Python floats are modelled as exact rationals [n, d] in       *)
(* lowest terms.  Where the float result can differ from the exact one (a  *)
(* comparison at exact equality, a rounding tie) the sign of the float's   *)
(* representation error is an input fp \in {-1, 0, 1} of the operation,    *)
(* chosen nondeterministically.  An optional value is None == <<>> or      *)
(* Some(x) == <<x>>.  The returned one-decimal score is kept in tenths     *)
(* (47 stands for 4.7).                                                    *)
(***************************************************************************)
EXTENDS Integers, Sequences, FiniteSets

VARIABLES
    nearby_cache,   \* st.session_state.nearby_cache: cache_key -> rows
    phase,          \* where the script is: "idle", "resolving", "unresolved", "fetching",
                    \* "reported", "no_comps", "raised"
    args,           \* arguments of the running fetch_nearby_values call
    step,           \* index of the radius being queried: 1 caller radius, 2 -> 3.0, 3 -> 5.0
    statuses,       \* response statuses of the run's latest uncached fetch_nearby_values_once call
    results,        \* local `results` of fetch_nearby_values
    calls,          \* the fetch_nearby_values_once calls of this run that returned, in order:
                    \* the key, whether the cache answered, the rows returned
    raised,         \* the exception that ended the run, "none" if none
    comps,          \* comps of the run (or of the classify_risk call)
    subject_price,  \* subject price handed to classify_risk
    subject_dom,    \* subject DOM handed to classify_risk
    risk,           \* what classify_risk returned: band, score, prob60, reasons (+ its locals)
    disable_realtor_autocomplete,   \* st.session_state.disable_realtor_autocomplete
    geocoder,       \* the geocoder whose request is in flight: "realtor", "osm", "google", or "none"
    geo_notes       \* what resolve_to_latlon appended to the run's debug_notes: <<name, status>>

vars == <<nearby_cache, phase, args, step, statuses, results, calls,
          raised, comps, subject_price, subject_dom, risk,
          disable_realtor_autocomplete, geocoder, geo_notes>>

geo_vars == <<disable_realtor_autocomplete, geocoder, geo_notes>>

fetch_vars == <<nearby_cache, args, step, statuses, results, calls, raised>>

-----------------------------------------------------------------------------
(* Optional values and Python truthiness                                   *)

None == <<>>
Some(x) == <<x>>

\* `if x` for an optional integer: None and 0 are falsy
Truthy(o) == o # None /\ o[1] # 0

-----------------------------------------------------------------------------
(* Exact rationals standing for floats                                     *)

Abs(x) == IF x < 0 THEN -x ELSE x

RECURSIVE GCD(_, _)
GCD(a, b) == IF b = 0 THEN a ELSE GCD(b, a % b)

Rat(n, d) ==
    LET g == GCD(Abs(n), Abs(d))
        s == IF d < 0 THEN -1 ELSE 1
    IN  [n |-> s * (n \div g), d |-> s * (d \div g)]

Q(i) == [n |-> i, d |-> 1]
RAdd(a, b) == Rat(a.n * b.d + b.n * a.d, a.d * b.d)
RSub(a, b) == Rat(a.n * b.d - b.n * a.d, a.d * b.d)
RMul(a, b) == Rat(a.n * b.n, a.d * b.d)
RDiv(a, b) == Rat(a.n * b.d, a.d * b.n)
RLt(a, b) == a.n * b.d < b.n * a.d
RLe(a, b) == a.n * b.d <= b.n * a.d
\* Python's min(a, b) / max(a, b): the first argument unless the second is smaller / larger
RMin(a, b) == IF RLt(b, a) THEN b ELSE a
RMax(a, b) == IF RLt(a, b) THEN b ELSE a
RFloor(a) == a.n \div a.d

\* float comparison x < c where x carries representation error of sign fp
FloatLt(x, c, fp) == RLt(x, c) \/ (x = c /\ fp < 0)

\* round(x) to an integer: exact ties go to the even neighbour, and a tie of
\* the exact value is decided by the float's error when there is one
RoundInt(x, fp) ==
    LET fl == RFloor(x)
        r2 == 2 * (x.n - fl * x.d)
    IN  IF r2 < x.d THEN fl
        ELSE IF r2 > x.d THEN fl + 1
        ELSE IF fp > 0 THEN fl + 1
        ELSE IF fp < 0 THEN fl
        ELSE IF fl % 2 = 0 THEN fl ELSE fl + 1

\* round(x, 1), in tenths
Round1(x, fp) == RoundInt(RMul(x, Q(10)), fp)

-----------------------------------------------------------------------------
(* Helpers                                                                 *)

RECURSIVE Insert(_, _)
Insert(x, s) ==
    IF s = <<>> THEN <<x>>
    ELSE IF x <= Head(s) THEN <<x>> \o s
    ELSE <<Head(s)>> \o Insert(x, Tail(s))

RECURSIVE Sorted(_)
Sorted(s) == IF s = <<>> THEN <<>> ELSE Insert(Head(s), Sorted(Tail(s)))

\* the elements of a sequence of optional integers that are not None, unwrapped
RECURSIVE Clean(_)
Clean(vals) ==
    IF vals = <<>> THEN <<>>
    ELSE IF Head(vals) = None THEN Clean(Tail(vals))
    ELSE <<Head(vals)[1]>> \o Clean(Tail(vals))

\* safe_median: np.median of the defined values, None when there is none
safe_median(vals) ==
    LET clean == Sorted(Clean(vals))
        len == Len(clean)
    IN  IF len = 0 THEN None
        ELSE IF len % 2 = 1 THEN Some(Q(clean[(len + 1) \div 2]))
        ELSE Some(Rat(clean[len \div 2] + clean[len \div 2 + 1], 2))

-----------------------------------------------------------------------------
(* Risk model                                                              *)

\* [c[field] for c in comps if c[field]]
RECURSIVE TruthyField(_, _)
TruthyField(cs, field) ==
    IF cs = <<>> THEN <<>>
    ELSE IF Truthy(Head(cs)[field]) THEN <<Head(cs)[field]>> \o TruthyField(Tail(cs), field)
    ELSE TruthyField(Tail(cs), field)

SubjectFromFirstComp(cs) ==
    LET prices == TruthyField(cs, "price")
        doms == TruthyField(cs, "dom")
    IN  [price |-> IF prices # <<>> THEN Some(Q(prices[1][1])) ELSE None,
         dom |-> IF doms # <<>> THEN Some(Q(doms[1][1])) ELSE None]

\* subject_from_comps: the medians of the comps' prices and DOMs, the DOM rounded
subject_from_comps(cs) ==
    LET prices == TruthyField(cs, "price")
        doms == TruthyField(cs, "dom")
    IN  [price |-> safe_median(prices),
         dom |-> IF doms # <<>> THEN Some(Q(RoundInt(safe_median(doms)[1], 0))) ELSE None]

\* floor(10^6 * g(k)), k = 1..99, where g(k) = 5 + ln(100/(k - 0.5) - 1)/0.55 is the
\* score at which 100/(1 + e^(0.55(score - 5))) crosses k - 0.5
LogisticMicro ==
    <<14624190, 12608348, 11661021, 11030509, 10554634, 10170639, 9847562,
      9567828, 9320496, 9098287, 8896115, 8710282, 8538018, 8377190,
      8226123, 8083475, 7948156, 7819268, 7696058, 7577895, 7464240,
      7354628, 7248659, 7145982, 7046290, 6949310, 6854801, 6762546,
      6672351, 6584040, 6497454, 6412447, 6328886, 6246648, 6165619,
      6085695, 6006777, 5928773, 5851598, 5775168, 5699407, 5624242,
      5549601, 5475417, 5401625, 5328160, 5254962, 5181969, 5109123,
      5036364, 4963635, 4890876, 4818030, 4745037, 4671839, 4598374,
      4524582, 4450398, 4375757, 4300592, 4224831, 4148401, 4071226,
      3993222, 3914304, 3834380, 3753351, 3671113, 3587552, 3502545,
      3415959, 3327648, 3237453, 3145198, 3050689, 2953709, 2854017,
      2751340, 2645371, 2535759, 2422104, 2303941, 2180731, 2051843,
      1916524, 1773876, 1622809, 1461981, 1289717, 1103884, 901712,
      679503, 432171, 152437, -170640, -554635, -1030510, -1661022,
      -2608349>>

\* floor(10^6 * x), three decimals at a time
FloorMicro(x) ==
    LET m == RMul(x, Q(1000))
        fl == RFloor(m)
    IN  1000 * fl + RFloor(RMul(RSub(m, Q(fl)), Q(1000)))

\* int(round(1 / (1 + math.exp(0.55 * (score - 5))) * 100)): the number of k with
\* score <= g(k), to the table's resolution
Prob60(score) ==
    LET micro == FloorMicro(score)
    IN  Cardinality({k \in 1..Len(LogisticMicro) : micro < LogisticMicro[k]})

WeightSwapped(price_pen, dom_pen) ==
    RAdd(RMul(Rat(3, 10), price_pen), RMul(Rat(7, 10), dom_pen))

\* score = 0.7 * price_pen + 0.3 * dom_pen
Composite(price_pen, dom_pen) ==
    RAdd(RMul(Rat(7, 10), price_pen), RMul(Rat(3, 10), dom_pen))

\* band = "Low" if score < 3 else "Moderate" if score < 6 else "High"
Band(score, fp) ==
    IF FloatLt(score, Q(3), fp) THEN "Low"
    ELSE IF FloatLt(score, Q(6), fp) THEN "Moderate" ELSE "High"

PenaltyUnclamped(diff, slope, default) ==
    IF diff = None THEN default
    ELSE RMul(RDiv(diff[1], slope), Q(10))

\* default if diff is None else max(0.0, min(10.0, (diff / slope) * 10.0))
Penalty(diff, slope, default) ==
    IF diff = None THEN default
    ELSE RMax(Q(0), RMin(Q(10), RMul(RDiv(diff[1], slope), Q(10))))

DiffPctAbs(subject, comp) ==
    LET d == RMul(RDiv(RSub(subject, comp), comp), Q(100))
    IN  IF RLt(d, Q(0)) THEN RSub(Q(0), d) ELSE d

\* (subject - comp) / comp * 100
DiffPct(subject, comp) == RMul(RDiv(RSub(subject, comp), comp), Q(100))

AlwaysScored(comp_prices) == FALSE

\* `if not comp_prices`
NoCompPrices(comp_prices) == comp_prices = <<>>

\* classify_risk(subject_price, subject_dom, comp_prices, comp_doms); sp and sd are
\* optional rationals, comp_prices and comp_doms sequences of optional integers
classify_risk(sp, sd, comp_prices, comp_doms, fp) ==
    IF NoCompPrices(comp_prices)
    THEN [band |-> "Unavailable", score |-> None, prob60 |-> None,
          reasons |-> <<"No comparable properties found.">>,
          price_pen |-> None, dom_pen |-> None, raw |-> None]
    ELSE
    LET comp_price == safe_median(comp_prices)
        comp_dom == IF comp_doms # <<>> THEN safe_median(comp_doms) ELSE None
        hasPrice == sp # None /\ sp[1].n # 0 /\ comp_price # None /\ comp_price[1].n # 0
        price_diff == IF hasPrice THEN Some(DiffPct(sp[1], comp_price[1])) ELSE None
        hasDom == sd # None /\ comp_dom # None /\ comp_dom[1].n # 0
        dom_diff == IF hasDom THEN Some(DiffPct(sd[1], comp_dom[1])) ELSE None
        price_pen == Penalty(price_diff, Q(25), Q(5))
        dom_pen == Penalty(dom_diff, Q(150), Q(3))
        score == Composite(price_pen, dom_pen)
        band == Band(score, fp)
    IN  [band |-> band, score |-> Some(Round1(score, fp)), prob60 |-> Some(Prob60(score)),
         reasons |-> <<IF hasPrice THEN "Subject vs comps"
                       ELSE "Using comp medians as subject proxy (insufficient subject price).">>
                     \o (IF hasDom THEN <<"Subject DOM vs comps">> ELSE <<>>)
                     \o <<"Composite score", "Estimated probability">>,
         price_pen |-> Some(price_pen), dom_pen |-> Some(dom_pen), raw |-> Some(score)]

\* suggestions_for(band): which of the four lists is returned
suggestions_for(band) ==
    IF band \in {"Low", "Moderate", "High"} THEN band ELSE "Insufficient data"

\* lines 448-454 of the run: the subject is the proxy computed from the comps
RunRisk(cs, fp) ==
    LET subject == subject_from_comps(cs)
    IN  classify_risk(subject.price, subject.dom,
                      TruthyField(cs, "price"), TruthyField(cs, "dom"), fp)

FloatErr == {-1, 0, 1}

NoRisk == [band |-> "none", score |-> None, prob60 |-> None, reasons |-> <<>>,
           price_pen |-> None, dom_pen |-> None, raw |-> None]

-----------------------------------------------------------------------------
(* The comps provider: what a request to properties/nearby-home-values can  *)
(* be answered with                                                         *)

\* One raw item of a response, reduced to the values the `or` chains of the
\* normalisation select: address may be "", numbers may be absent or 0
Item(address, price, dom, sqft) ==
    [address |-> address, price |-> price, dom |-> dom, sqft |-> sqft]

MainSt == Item("123 Main St", Some(500000), Some(20), Some(1800))
MainStUpper == Item("123 MAIN ST", Some(500000), Some(20), Some(1800))
MainStRepriced == Item("123 Main St", Some(510000), Some(20), Some(1800))
OakAve == Item("9 Oak Ave", Some(520000), Some(25), Some(2000))
ElmRd == Item("4 Elm Rd", Some(480000), Some(22), None)
HillSt == Item("21 Hill St", Some(530000), Some(30), Some(2100))
BayLn == Item("30 Bay Ln", Some(515000), None, Some(1900))
PineCt == Item("7 Pine Ct", None, Some(40), Some(1500))
LakeDr == Item("15 Lake Dr", Some(0), Some(0), Some(0))
NoAddress == Item("", Some(450000), Some(12), Some(1600))
\* unpriced listings "Lot 1", "Lot 2", ...
Lots == <<"Lot 1", "Lot 2", "Lot 3", "Lot 4", "Lot 5", "Lot 6", "Lot 7", "Lot 8">>
Lot(k) == Item(Lots[k], None, Some(10 * k), None)

\* The JSON shapes of a 200 body: results under data.home_search.results, results
\* under a top-level key (results, homes, listings, properties), or "data" a list
Body(shape, items) == [shape |-> shape, items |-> items]

Bodies ==
    { Body("top_level", <<>>),
      Body("home_search", <<>>),
      Body("data_list", <<MainSt>>),
      Body("home_search", <<MainSt, MainStUpper, MainStRepriced, OakAve, ElmRd, HillSt>>),
      Body("top_level", <<MainSt, OakAve, NoAddress, PineCt, LakeDr, BayLn, MainSt>>),
      Body("home_search", [k \in 1..Len(Lots) |-> Lot(k)]) }

\* statuses a response can carry
Statuses == {200, 429, 500}

-----------------------------------------------------------------------------
(* Comps fetch with backoff + session cache                                 *)

\* backoffs = [0, 6, 12, 24]
backoffs == <<0, 6, 12, 24>>

\* round(x, 6) of a coordinate kept in units of 1e-7 degrees, in units of 1e-6
Round6(x) == RoundInt(Rat(x, 10), 0)

\* cache_key = (round(lat,6), round(lon,6), float(radius_miles)); radius in tenths of a mile
cache_key(lat, lon, radius_miles) == <<Round6(lat), Round6(lon), radius_miles>>

\* raw = js.get("data", {}).get("home_search", {}).get("results", []) or js.get("data")
\*       or js.get("results") or ... or []; raw[:limit]
\* "raises": the chain calls .get on a list, or slices the "data" dict that the
\* `or` falls back to when home_search.results is empty
RawOf(body) ==
    IF body.shape = "data_list" THEN "raises"
    ELSE IF body.shape = "home_search" /\ body.items = <<>> THEN "raises"
    ELSE "list"

TakeFirst(s, n) == SubSeq(s, 1, IF Len(s) < n THEN Len(s) ELSE n)

\* x if x else None
OrNone(o) == IF Truthy(o) THEN o ELSE None

\* the loop over raw[:limit]: a row per item that has an address
RECURSIVE Rows(_)
Rows(items) ==
    IF items = <<>> THEN <<>>
    ELSE LET it == Head(items)
         IN  (IF it.address # ""
              THEN <<[address |-> it.address, price |-> OrNone(it.price),
                      dom |-> OrNone(it.dom), sqft |-> OrNone(it.sqft)]>>
              ELSE <<>>) \o Rows(Tail(items))

ParseRows(body, limit) == Rows(TakeFirst(body.items, limit))

CacheStoreIfRows(cache, key, rows) ==
    IF rows = <<>> THEN cache
    ELSE [k \in DOMAIN cache \cup {key} |-> IF k = key THEN rows ELSE cache[k]]

\* st.session_state.nearby_cache[cache_key] = last_rows
CacheStore(cache, key, rows) ==
    [k \in DOMAIN cache \cup {key} |-> IF k = key THEN rows ELSE cache[k]]

\* k = (r.get("address"), r.get("price"), r.get("sqft"))
DedupeKey(r) == <<r.address, r.price, r.sqft>>

RECURSIVE DedupeFrom(_, _)
DedupeFrom(rows, seen) ==
    IF rows = <<>> THEN <<>>
    ELSE LET k == DedupeKey(Head(rows))
         IN  IF k \in seen THEN DedupeFrom(Tail(rows), seen)
             ELSE <<Head(rows)>> \o DedupeFrom(Tail(rows), seen \cup {k})

DedupeNothing(rows) == rows

\* dedupe_props: the first row of each key, in order
dedupe_props(rows) == DedupeFrom(rows, {})

\* the radii fetch_nearby_values widens to after the caller's: for rmi in [3.0, 5.0]
WidenRadii == <<30, 50>>

RadiusAt(a, st) == IF st = 1 THEN a.radius_miles ELSE WidenRadii[st - 1]

KeyAt(a, st) == cache_key(a.lat, a.lon, RadiusAt(a, st))

EnoughAtSix(rows) == Len(rows) >= 6

\* if len(results) >= 8
Enough(rows) == Len(rows) >= 8

\* The run after fetch_nearby_values returned (main script, `if not comps` on):
\* st.stop() when there are no comps, else the subject proxy and the risk
Finish(cache, res, cs, sts, a, fp) ==
    LET out == TakeFirst(res, a.limit)
        subject == subject_from_comps(out)
    IN  [nearby_cache |-> cache, step |-> 0, statuses |-> sts, results |-> res,
         calls |-> cs, raised |-> "none", comps |-> out,
         phase |-> IF out = <<>> THEN "no_comps" ELSE "reported",
         subject_price |-> IF out = <<>> THEN None ELSE subject.price,
         subject_dom |-> IF out = <<>> THEN None ELSE subject.dom,
         risk |-> IF out = <<>> THEN NoRisk ELSE RunRisk(out, fp)]

CallRecord(key, hit, rows) == [key |-> key, hit |-> hit, rows |-> rows]

RECURSIVE EnterCall(_, _, _, _, _, _, _)
RECURSIVE AfterReturn(_, _, _, _, _, _, _, _)

\* fetch_nearby_values after its call number st of fetch_nearby_values_once returned rows:
\* extend, dedupe, and return or widen
AfterReturn(cache, res, st, rows, cs, sts, a, fp) ==
    LET res1 == dedupe_props(res \o rows)
    IN  IF Enough(res1) \/ st = 1 + Len(WidenRadii)
        THEN Finish(cache, res1, cs, sts, a, fp)
        ELSE EnterCall(cache, res1, st + 1, cs, sts, a, fp)

\* entry of call number st of fetch_nearby_values_once: a cached key returns at once,
\* any other waits for the provider
EnterCall(cache, res, st, cs, sts, a, fp) ==
    LET key == KeyAt(a, st)
    IN  IF key \in DOMAIN cache
        THEN AfterReturn(cache, res, st, cache[key],
                         Append(cs, CallRecord(key, TRUE, cache[key])), sts, a, fp)
        ELSE [nearby_cache |-> cache, step |-> st, statuses |-> <<>>, results |-> res,
              calls |-> cs, raised |-> "none", comps |-> <<>>, phase |-> "fetching",
              subject_price |-> None, subject_dom |-> None, risk |-> NoRisk]

\* the running fetch_nearby_values_once stores last_rows and returns it
ReturnRows(sts, rows, fp) ==
    LET key == KeyAt(args, step)
    IN  AfterReturn(CacheStore(nearby_cache, key, rows), results, step, rows,
                    Append(calls, CallRecord(key, FALSE, rows)), sts, args, fp)

\* an exception leaves fetch_nearby_values_once, fetch_nearby_values and the script
Raise(sts, what) ==
    [nearby_cache |-> nearby_cache, step |-> step, statuses |-> sts, results |-> results,
     calls |-> calls, raised |-> what, comps |-> <<>>, phase |-> "raised",
     subject_price |-> None, subject_dom |-> None, risk |-> NoRisk]

Becomes(o) ==
    /\ nearby_cache' = o.nearby_cache
    /\ phase' = o.phase
    /\ step' = o.step
    /\ statuses' = o.statuses
    /\ results' = o.results
    /\ calls' = o.calls
    /\ raised' = o.raised
    /\ comps' = o.comps
    /\ subject_price' = o.subject_price
    /\ subject_dom' = o.subject_dom
    /\ risk' = o.risk

-----------------------------------------------------------------------------
(* The session: analysis runs against the comps provider                    *)

\* where the subject was geocoded to, in units of 1e-7 degrees: two points that
\* round to the same six decimals (neither at a rounding tie)
Points == { <<327327132, -973089962>>, <<327327134, -973089962>> }

\* st.slider("Comps radius (miles)", 0.5, 5.0, 2.0, 0.5), in tenths of a mile
CallerRadii == {20, 50}

\* st.selectbox("Max comps", [10, 15, 20, 25, 30])
Limits == {10}

NoArgs == [lat |-> 0, lon |-> 0, radius_miles |-> 0, limit |-> 0]

Init ==
    /\ nearby_cache = <<>>
    /\ phase = "idle"
    /\ args = NoArgs
    /\ step = 0
    /\ statuses = <<>>
    /\ results = <<>>
    /\ calls = <<>>
    /\ raised = "none"
    /\ comps = <<>>
    /\ subject_price = None
    /\ subject_dom = None
    /\ risk = NoRisk
    /\ disable_realtor_autocomplete = FALSE
    /\ geocoder = "none"
    /\ geo_notes = <<>>

\* "Run Analysis" with manual coordinates (use_manual): no geocoder is asked,
\* fetch_nearby_values starts, and runs on through every radius the session cache
\* already holds
RunAnalysis(pt, radius, limit) ==
    /\ phase \notin {"resolving", "fetching"}
    /\ geo_notes' = <<>>
    /\ UNCHANGED <<disable_realtor_autocomplete, geocoder>>
    /\ LET a == [lat |-> pt[1], lon |-> pt[2], radius_miles |-> radius, limit |-> limit]
       IN  /\ args' = a
           /\ \E fp \in FloatErr : \E o \in {EnterCall(nearby_cache, <<>>, 1, <<>>, <<>>, a, fp)} : Becomes(o)

\* r.status_code == 429: back off and retry; after the last backoff the loop ends
\* with last_rows = []
Respond429 ==
    /\ phase = "fetching"
    /\ LET sts == Append(statuses, 429)
       IN  IF Len(sts) < Len(backoffs)
           THEN /\ statuses' = sts
                /\ UNCHANGED <<nearby_cache, phase, args, step, results, calls, raised,
                               comps, subject_price, subject_dom, risk>>
           ELSE /\ \E fp \in FloatErr : \E o \in {ReturnRows(sts, <<>>, fp)} : Becomes(o)
                /\ UNCHANGED args
    /\ UNCHANGED geo_vars

\* r.status_code != 200: break with last_rows = []
RespondError(status) ==
    /\ phase = "fetching"
    /\ status \notin {200, 429}
    /\ \E fp \in FloatErr : \E o \in {ReturnRows(Append(statuses, status), <<>>, fp)} : Becomes(o)
    /\ UNCHANGED <<args, geo_vars>>

\* r.status_code == 200: the rows of the body, or the exception its shape raises
Respond200(body) ==
    /\ phase = "fetching"
    /\ LET sts == Append(statuses, 200)
       IN  IF RawOf(body) = "raises"
           THEN Becomes(Raise(sts, "body"))
           ELSE \E fp \in FloatErr : \E o \in {ReturnRows(sts, ParseRows(body, args.limit), fp)} : Becomes(o)
    /\ UNCHANGED <<args, geo_vars>>

\* requests.get raises (timeout, connection error): nothing catches it
TransportFails ==
    /\ phase = "fetching"
    /\ Becomes(Raise(statuses, "transport"))
    /\ UNCHANGED <<args, geo_vars>>

\* "Use Manual Comps" is a button drawn inside `if go:`; its click reruns the script
\* with go = False, so nothing under `if go:` runs and the manual comps are not used
UseManualComps ==
    /\ phase = "no_comps"
    /\ phase' = "idle"
    /\ UNCHANGED <<nearby_cache, args, step, statuses, results, calls, raised,
                   comps, subject_price, subject_dom, risk, geo_vars>>

Next ==
    \/ \E pt \in Points, radius \in CallerRadii, limit \in Limits : RunAnalysis(pt, radius, limit)
    \/ Respond429
    \/ \E status \in Statuses : RespondError(status)
    \/ \E body \in Bodies : Respond200(body)
    \/ TransportFails
    \/ UseManualComps

Spec == Init /\ [][Next]_vars

-----------------------------------------------------------------------------
(* Geocoding: Realtor -> OSM -> (optional) Google                           *)

\* what is typed into "Enter Address or Realtor.com URL"
AddressInputs == {"", "   ", "1105 Freeman St, Fort Worth, TX 76104"}

\* s = (address_or_url or "").strip()
Strip(text) == IF text \in {"", "   "} THEN "" ELSE text

\* statuses a geocoder's response can carry
GeoStatuses == {200, 403, 500}

\* what a geocoder's 200 body locates: nothing, a point, or a point of latitude 0
GeoHits == {None, Some(<<327327132, -973089962>>), Some(<<0, -973089962>>)}

\* `if lat and lon`
Found(hit) == hit # None /\ hit[1][1] # 0 /\ hit[1][2] # 0

\* the radius of the runs that geocode, in tenths of a mile
GeoRadii == {50}

RealtorNeverSkipped(disabled) == FALSE

\* resolve_latlon_realtor: `if st.session_state.disable_realtor_autocomplete:
\* return None, None, None`, before any request
RealtorSkipped(disabled) == disabled

\* `if r.status_code == 403`: not subscribed
NotSubscribed(status) == status = 403

\* the values of a run that is not fetching
Stopped(ph, what) ==
    [nearby_cache |-> nearby_cache, step |-> 0, statuses |-> <<>>, results |-> <<>>,
     calls |-> <<>>, raised |-> what, comps |-> <<>>, phase |-> ph,
     subject_price |-> None, subject_dom |-> None, risk |-> NoRisk]

\* `if not lat or not lon`: st.error(...), st.stop()
NotResolved ==
    /\ geocoder' = "none"
    /\ Becomes(Stopped("unresolved", "none"))
    /\ UNCHANGED args

\* resolve_to_latlon returned pt: the run goes on to fetch_nearby_values, unless a
\* coordinate is 0
ResolvedTo(pt) ==
    IF pt[1] = 0 \/ pt[2] = 0 THEN NotResolved
    ELSE /\ geocoder' = "none"
         /\ LET a == [args EXCEPT !.lat = pt[1], !.lon = pt[2]]
            IN  /\ args' = a
                /\ \E fp \in FloatErr :
                      \E o \in {EnterCall(nearby_cache, <<>>, 1, <<>>, <<>>, a, fp)} : Becomes(o)

\* resolve_to_latlon goes on to the geocoder `next`
FallTo(next) ==
    /\ geocoder' = next
    /\ UNCHANGED <<nearby_cache, phase, args, step, statuses, results, calls, raised,
                   comps, subject_price, subject_dom, risk>>

\* resolve_latlon_google: without a geocoding key in st.secrets, not found and no request
FallToGoogle == \E key \in BOOLEAN : IF key THEN FallTo("google") ELSE NotResolved

\* "Run Analysis" with a typed address: resolve_to_latlon starts, with the
\* auto-complete request unless the session flag is set, then with the OSM request
RunAnalysisGeocoding(text, radius, limit) ==
    /\ phase \notin {"resolving", "fetching"}
    /\ geo_notes' = <<>>
    /\ UNCHANGED disable_realtor_autocomplete
    /\ args' = [lat |-> 0, lon |-> 0, radius_miles |-> radius, limit |-> limit]
    /\ IF Strip(text) = ""
       THEN /\ geocoder' = "none"
            /\ Becomes(Stopped("unresolved", "none"))
       ELSE /\ geocoder' = (IF RealtorSkipped(disable_realtor_autocomplete)
                            THEN "osm" ELSE "realtor")
            /\ Becomes(Stopped("resolving", "none"))

\* the response to properties/auto-complete: 403 sets the session flag; a hit with
\* truthy coordinates resolves; anything else falls to OSM
AutoCompleteResponds(status, hit) ==
    /\ phase = "resolving"
    /\ geocoder = "realtor"
    /\ geo_notes' = Append(geo_notes, <<"SEARCH auto-complete", status>>)
    /\ disable_realtor_autocomplete' =
          (IF NotSubscribed(status) THEN TRUE ELSE disable_realtor_autocomplete)
    /\ IF status = 200 /\ Found(hit) THEN ResolvedTo(hit[1]) ELSE FallTo("osm")

\* the response of nominatim: a first result with truthy coordinates resolves;
\* anything else falls to Google
NominatimResponds(status, hit) ==
    /\ phase = "resolving"
    /\ geocoder = "osm"
    /\ geo_notes' = Append(geo_notes, <<"OSM nominatim", status>>)
    /\ UNCHANGED disable_realtor_autocomplete
    /\ IF status = 200 /\ Found(hit) THEN ResolvedTo(hit[1]) ELSE FallToGoogle

\* the response of the Google geocoder: its location is what resolve_to_latlon returns
GoogleResponds(status, hit) ==
    /\ phase = "resolving"
    /\ geocoder = "google"
    /\ geo_notes' = Append(geo_notes, <<"GOOGLE geocode", status>>)
    /\ UNCHANGED disable_realtor_autocomplete
    /\ IF status = 200 /\ hit # None THEN ResolvedTo(hit[1]) ELSE NotResolved

\* a geocoder's requests.get raises: nothing catches it, the run ends
GeocoderFails ==
    /\ phase = "resolving"
    /\ geocoder' = "none"
    /\ Becomes(Stopped("raised", "transport"))
    /\ UNCHANGED <<args, geo_notes, disable_realtor_autocomplete>>

NextGeo ==
    \/ \E text \in AddressInputs, radius \in GeoRadii, limit \in Limits :
          RunAnalysisGeocoding(text, radius, limit)
    \/ \E status \in GeoStatuses, hit \in GeoHits : AutoCompleteResponds(status, hit)
    \/ \E status \in GeoStatuses, hit \in GeoHits : NominatimResponds(status, hit)
    \/ \E status \in GeoStatuses, hit \in GeoHits : GoogleResponds(status, hit)
    \/ GeocoderFails
    \/ \E pt \in Points, radius \in GeoRadii, limit \in Limits : RunAnalysis(pt, radius, limit)
    \/ Respond429
    \/ \E status \in Statuses : RespondError(status)
    \/ \E body \in Bodies : Respond200(body)
    \/ TransportFails
    \/ UseManualComps

SpecGeo == Init /\ [][NextGeo]_vars

-----------------------------------------------------------------------------
(* classify_risk on its own: calls with any subject and any comps           *)

MaxComps == 3

CompPool == Rows(<<MainSt, OakAve, ElmRd, PineCt, BayLn>>)

\* lists of up to MaxComps comps, as indices into CompPool
CompLists == UNION {[1..n -> 1..Len(CompPool)] : n \in 0..MaxComps}

CompsOf(idx) == [i \in 1..Len(idx) |-> CompPool[idx[i]]]

SubjectPrices == {None} \cup {Some(Q(p)) : p \in {0, 480000, 500000, 537000, 550000, 650000}}

SubjectDoms == {None} \cup {Some(Q(d)) : d \in {0, 22, 45, 60}}

InitRisk ==
    /\ nearby_cache = <<>>
    /\ phase = "idle"
    /\ args = NoArgs
    /\ step = 0
    /\ statuses = <<>>
    /\ results = <<>>
    /\ calls = <<>>
    /\ raised = "none"
    /\ \E idx \in CompLists : comps = CompsOf(idx)
    /\ subject_price \in SubjectPrices
    /\ subject_dom \in SubjectDoms
    /\ risk = NoRisk
    /\ disable_realtor_autocomplete = FALSE
    /\ geocoder = "none"
    /\ geo_notes = <<>>

\* classify_risk(subject_price, subject_dom, comp_prices, comp_doms) with the comp
\* lists taken from the comps as the run takes them
CallClassifyRisk ==
    /\ phase = "idle"
    /\ \E fp \in FloatErr :
          risk' = classify_risk(subject_price, subject_dom,
                                TruthyField(comps, "price"), TruthyField(comps, "dom"), fp)
    /\ phase' = "classified"
    /\ UNCHANGED <<fetch_vars, comps, subject_price, subject_dom, geo_vars>>

\* the run's scoring of comps it has: the subject is replaced by the proxy
CallRunRisk ==
    /\ phase = "idle"
    /\ comps # <<>>
    /\ subject_price' = subject_from_comps(comps).price
    /\ subject_dom' = subject_from_comps(comps).dom
    /\ \E fp \in FloatErr : risk' = RunRisk(comps, fp)
    /\ phase' = "reported"
    /\ UNCHANGED <<fetch_vars, comps, geo_vars>>

NextRisk == CallClassifyRisk \/ CallRunRisk

SpecRisk == InitRisk /\ [][NextRisk]_vars

-----------------------------------------------------------------------------
(* Properties of classify_risk, checked under SpecRisk                      *)

Scored == phase \in {"classified", "reported"}

SomePricedComp == \E i \in 1..Len(comps) : Truthy(comps[i].price)

\* C1: classify_risk returns the band "Unavailable" exactly when no comp has a
\* price; then score and probability are None and the reasons are the single
\* string "No comparable properties found."; otherwise both are present.
C1_UnavailableIffNoPrices ==
    Scored =>
        /\ (risk.band = "Unavailable") <=> ~SomePricedComp
        /\ ~SomePricedComp =>
              /\ risk.score = None
              /\ risk.prob60 = None
              /\ risk.reasons = <<"No comparable properties found.">>
        /\ SomePricedComp =>
              /\ risk.score # None /\ risk.score[1] \in Int
              /\ risk.prob60 # None /\ risk.prob60[1] \in 0..100

\* a run whose comps all lack a price reached classify_risk
C1_Witness ==
    phase = "reported" /\ comps # <<>> /\ ~SomePricedComp /\ risk.band = "Unavailable"

InUnit10(x) == RLe(Q(0), x) /\ RLe(x, Q(10))

\* C2: with at least one priced comp, the returned score lies in [0, 10] (0..100
\* tenths) and so do the price and DOM penalties it was computed from.
C2_ScoreAndPenaltiesInRange ==
    (Scored /\ SomePricedComp) =>
        /\ risk.score[1] \in 0..100
        /\ InUnit10(risk.raw[1])
        /\ InUnit10(risk.price_pen[1])
        /\ InUnit10(risk.dom_pen[1])

\* both penalties were clamped at 10 and the score is 10.0
C2_Witness ==
    /\ phase = "classified" /\ SomePricedComp
    /\ risk.price_pen = Some(Q(10)) /\ risk.dom_pen = Some(Q(10)) /\ risk.score = Some(100)

\* buyer-pool tier penalty of the specification, in tenths
PoolPenaltyTenths(sp) ==
    IF sp = None THEN 40
    ELSE IF RLt(sp[1], Q(500000)) THEN 15
    ELSE IF RLt(sp[1], Q(700000)) THEN 40
    ELSE IF RLt(sp[1], Q(900000)) THEN 65
    ELSE 80

ScenarioA ==
    /\ phase = "classified"
    /\ subject_price = Some(Q(550000)) /\ subject_dom = Some(Q(45))
    /\ TruthyField(comps, "price") = <<Some(500000), Some(520000), Some(480000)>>
    /\ TruthyField(comps, "dom") = <<Some(20), Some(25), Some(22)>>

\* C6 as claimed: the score is 0.55*pricePenalty + 0.25*domPenalty + 0.20*poolPenalty,
\* clamped to [0, 10] and rounded to one decimal; 4.7 and Moderate in the scenario.
C6_ThreeTermScore ==
    /\ (Scored /\ SomePricedComp) =>
          LET three == RAdd(RAdd(RMul(Rat(55, 100), risk.price_pen[1]),
                                 RMul(Rat(25, 100), risk.dom_pen[1])),
                            RMul(Rat(20, 100), Rat(PoolPenaltyTenths(subject_price), 10)))
          IN  \E fp \in FloatErr :
                  risk.score = Some(Round1(RMax(Q(0), RMin(Q(10), three)), fp))
    /\ ScenarioA => risk.score = Some(47) /\ risk.band = "Moderate"

\* x cut to [0, 10]
Cut10(x) == IF RLt(x, Q(0)) THEN Q(0) ELSE IF RLt(Q(10), x) THEN Q(10) ELSE x

\* the price penalty as a closed form of the inputs: 40(s - m)/m cut to [0, 10],
\* and 5 when the subject price is missing or 0
ExpectedPricePenalty ==
    LET m == safe_median(TruthyField(comps, "price"))[1]
    IN  IF subject_price = None THEN Q(5)
        ELSE IF subject_price[1].n = 0 THEN Q(5)
        ELSE Cut10(RDiv(RMul(Q(40), RSub(subject_price[1], m)), m))

\* the DOM penalty as a closed form of the inputs: 20(s - m)/(3m) cut to [0, 10],
\* and 3 when the subject DOM is missing or no comp has a DOM
ExpectedDomPenalty ==
    LET doms == TruthyField(comps, "dom")
    IN  IF subject_dom = None \/ doms = <<>> THEN Q(3)
        ELSE LET m == safe_median(doms)[1]
             IN  Cut10(RDiv(RMul(Q(20), RSub(subject_dom[1], m)), RMul(Q(3), m)))

\* C6 amended: the score is 0.7*pricePenalty + 0.3*domPenalty rounded to one
\* decimal, with no buyer-pool term; in the scenario the penalties are 4.0 and
\* 230/33 (about 6.97), the score 4.9 (about 4.89) and the band Moderate.
C6_TwoTermScore ==
    /\ (Scored /\ SomePricedComp) =>
          LET pp == ExpectedPricePenalty
              dp == ExpectedDomPenalty
              two == Rat(7 * pp.n * dp.d + 3 * dp.n * pp.d, 10 * pp.d * dp.d)
          IN  /\ risk.price_pen = Some(pp)
              /\ risk.dom_pen = Some(dp)
              /\ risk.raw = Some(two)
              /\ \E fp \in FloatErr : risk.score = Some(Round1(two, fp))
    /\ ScenarioA =>
          /\ risk.price_pen = Some(Q(4)) /\ risk.dom_pen = Some(Rat(230, 33))
          /\ risk.score = Some(49) /\ risk.band = "Moderate"

C6_Witness == ScenarioA /\ risk.score = Some(49)

\* the exact score is neither a band threshold nor a rounding tie, so the float's
\* error decides nothing about the call
FloatDecided == risk.raw[1] \notin {Q(3), Q(6)} /\ Round1(risk.raw[1], -1) = Round1(risk.raw[1], 1)

\* C7 as claimed: the band agrees with the returned one-decimal score: Low exactly
\* when it is below 3.0, Moderate from 3.0 to below 6.0, High from 6.0 (stated on
\* the calls whose outcome the float's error cannot decide).
C7_BandAgreesWithReturnedScore ==
    (Scored /\ SomePricedComp /\ FloatDecided) =>
        /\ (risk.band = "Low") <=> (risk.score[1] < 30)
        /\ (risk.band = "Moderate") <=> (risk.score[1] >= 30 /\ risk.score[1] < 60)
        /\ (risk.band = "High") <=> (risk.score[1] >= 60)

\* what classify_risk returns for another subject price, all else as in the state
WithSubjectPrice(sp, fp) ==
    classify_risk(sp, subject_dom, TruthyField(comps, "price"), TruthyField(comps, "dom"), fp)

\* the call of the state and the call with subject price sp2 are ordered as their prices
NotSmallerAt(sp2) ==
    /\ RLe(risk.raw[1], WithSubjectPrice(sp2, 0).raw[1])
    /\ \A fp \in FloatErr :
          Round1(risk.raw[1], fp) <= WithSubjectPrice(sp2, fp).score[1]

\* C8 as claimed: of two calls that differ only in the subject price, the one with
\* the larger price never returns the smaller score.
C8_MonotoneInSubjectPrice ==
    (phase = "classified" /\ SomePricedComp /\ subject_price # None) =>
        \A sp2 \in SubjectPrices \ {None} :
            RLt(subject_price[1], sp2[1]) => NotSmallerAt(sp2)

\* C8 amended: of two calls that differ only in the subject price, both prices
\* non-zero, the one with the larger price never returns the smaller score (a
\* subject price of 0 counts as missing and takes the default price penalty 5.0).
C8_MonotoneInNonZeroSubjectPrice ==
    (phase = "classified" /\ SomePricedComp /\ subject_price # None /\ subject_price[1].n # 0) =>
        \A sp2 \in SubjectPrices \ {None} :
            (sp2[1].n # 0 /\ RLt(subject_price[1], sp2[1])) => NotSmallerAt(sp2)

\* a call at the comp median and a larger subject price that scores strictly higher
C8_Witness ==
    /\ phase = "classified" /\ SomePricedComp
    /\ subject_price = Some(Q(500000))
    /\ risk.price_pen = Some(Q(0))
    /\ RLt(risk.raw[1], WithSubjectPrice(Some(Q(550000)), 0).raw[1])

-----------------------------------------------------------------------------
(* Properties of the comps fetch, checked under Spec                        *)

\* fetch_nearby_values returned: comps is what it returned
Returned == phase \in {"reported", "no_comps"}

Last(seq) == seq[Len(seq)]

\* the radii handed to fetch_nearby_values_once so far in this run, in order
Queried ==
    [i \in 1..Len(calls) |-> calls[i].key[3]]
        \o (IF phase \in {"fetching", "raised"} THEN <<RadiusAt(args, step)>> ELSE <<>>)

\* the rows the first n calls of the run returned, one after the other
RECURSIVE RowsOfCalls(_)
RowsOfCalls(n) == IF n = 0 THEN <<>> ELSE RowsOfCalls(n - 1) \o calls[n].rows

NoRepeat(rows, key(_)) ==
    \A i, j \in 1..Len(rows) : i < j => key(rows[i]) # key(rows[j])

\* the gathered records when call number k was issued
GatheredBefore(k) ==
    LET rows == RowsOfCalls(k - 1)
    IN  [i \in {j \in 1..Len(rows) : \A h \in 1..(j - 1) : DedupeKey(rows[h]) # DedupeKey(rows[j])}
            |-> rows[i]]

CountBefore(k) == Cardinality(DOMAIN GatheredBefore(k))

PricedBefore(k) ==
    Cardinality({i \in DOMAIN GatheredBefore(k) : GatheredBefore(k)[i].price # None})

\* addr.strip().lower() of the addresses the provider sends
TrimLower(a) ==
    CASE a = "123 Main St" -> "123 main st"
      [] a = "123 MAIN ST" -> "123 main st"
      [] a = "9 Oak Ave" -> "9 oak ave"
      [] a = "4 Elm Rd" -> "4 elm rd"
      [] a = "21 Hill St" -> "21 hill st"
      [] a = "30 Bay Ln" -> "30 bay ln"
      [] a = "7 Pine Ct" -> "7 pine ct"
      [] a = "15 Lake Dr" -> "15 lake dr"
      [] a = "Lot 1" -> "lot 1"
      [] a = "Lot 2" -> "lot 2"
      [] a = "Lot 3" -> "lot 3"
      [] a = "Lot 4" -> "lot 4"
      [] a = "Lot 5" -> "lot 5"
      [] a = "Lot 6" -> "lot 6"
      [] a = "Lot 7" -> "lot 7"
      [] a = "Lot 8" -> "lot 8"

SameAddress(r) == TrimLower(r.address)

\* C3 as claimed: the list fetch_nearby_values returns holds no two records whose
\* addresses are equal after trimming and lowercasing, whatever their price or
\* square footage.
C3_NoTwoWithSameAddress == Returned => NoRepeat(comps, SameAddress)

\* C3 amended: the list fetch_nearby_values returns holds no two records with the
\* same address (compared as it is), price and square footage; records that differ
\* in the case of the address, in price or in square footage are all kept.
C3_NoTwoWithSameKey ==
    /\ Returned => NoRepeat(comps, DedupeKey)
    /\ NoRepeat(results, DedupeKey)

\* a returned list that holds "123 Main St" and "123 MAIN ST", from calls that
\* returned more rows than were kept
C3_Witness ==
    /\ Returned
    /\ \E i, j \in 1..Len(comps) :
          comps[i].address = "123 Main St" /\ comps[j].address = "123 MAIN ST"
    /\ Len(RowsOfCalls(Len(calls))) > Len(results)

\* C4 as claimed: the radii are queried in increasing order; no further radius is
\* queried once 6 gathered records have a price; and the next radius is queried
\* while fewer than 6 have one and radii remain.
C4_StopsAtSixPriced ==
    /\ \A i, j \in 1..Len(Queried) : i < j => Queried[i] < Queried[j]
    /\ \A k \in 2..Len(Queried) : PricedBefore(k) < 6
    /\ Returned =>
          \/ Len(calls) = 3
          \/ Cardinality({i \in 1..Len(results) : results[i].price # None}) >= 6

\* C4 amended: the caller's radius is queried first, then 3.0, then 5.0 miles; no
\* further radius is queried once 8 de-duplicated records (priced or not) are
\* gathered; and whenever a query returns with fewer than 8 gathered and a radius
\* left, the next radius is queried.
C4_StopsAtEightRecords ==
    /\ Len(Queried) <= 3
    /\ \A k \in 1..Len(Queried) :
          Queried[k] = (IF k = 1 THEN args.radius_miles ELSE <<30, 50>>[k - 1])
    /\ \A k \in 2..Len(Queried) : CountBefore(k) < 8
    /\ Returned => (Len(calls) = 3 \/ Len(results) >= 8)
    /\ (calls # <<>> /\ Len(calls) < 3 /\ CountBefore(Len(calls) + 1) < 8)
          => Len(Queried) = Len(calls) + 1

\* the run widened once and stopped there with 8 or more records, 6 of them priced
\* already after the first query
C4_Witness ==
    /\ Returned /\ Len(calls) = 2 /\ Len(results) >= 8
    /\ PricedBefore(2) >= 6

\* the rows the latest uncached call returned
LastFetchedRows ==
    LET n == CHOOSE i \in 1..Len(calls) :
                 ~calls[i].hit /\ \A j \in (i + 1)..Len(calls) : calls[j].hit
    IN  calls[n].rows

\* C5 as claimed: a transport failure or a non-success response for one radius
\* query counts as zero records from it and does not end the run: the remaining
\* radii are still queried and what was gathered is returned.
C5_FailuresAreZeroRecords ==
    /\ raised # "transport"
    /\ (phase # "fetching" /\ raised = "none" /\ statuses # <<>> /\ Last(statuses) # 200)
          => LastFetchedRows = <<>>
    /\ Returned => (Len(calls) = 3 \/ Len(results) >= 8)

\* what the session cache holds stays as it is
CacheKept ==
    \A k \in DOMAIN nearby_cache :
        k \in DOMAIN nearby_cache' /\ nearby_cache'[k] = nearby_cache[k]

\* C9: once fetch_nearby_values_once returned for a key, whatever the outcome, the
\* key is cached with the rows it returned; a call for a cached key sends no
\* request and returns the cached rows; and no step changes or removes an entry.
C9_CacheAppendOnly ==
    /\ [](/\ phase = "fetching" => KeyAt(args, step) \notin DOMAIN nearby_cache
          /\ \A i \in 1..Len(calls) :
                /\ calls[i].key \in DOMAIN nearby_cache
                /\ nearby_cache[calls[i].key] = calls[i].rows)
    /\ [][CacheKept]_vars

\* a rate-limited fetch of a key (four 429s) was cached as no rows, and a later
\* call for the same key was answered by the cache
C9_Witness ==
    /\ Returned /\ Len(calls) = 3
    /\ ~calls[1].hit /\ calls[2].hit /\ calls[3].hit
    /\ calls[3].key = calls[1].key
    /\ statuses = <<429, 429, 429, 429>>
    /\ calls[3].rows = <<>>

\* C10: one uncached fetch_nearby_values_once sends a further request only after
\* 429s, at most 4 requests, stops at the first response that is not 429, and for
\* every sequence of response statuses returns a list, empty unless the last
\* response was a 200.
C10_RetryProtocol ==
    /\ Len(statuses) <= 4
    /\ \A i \in 1..(Len(statuses) - 1) : statuses[i] = 429
    /\ phase = "fetching" => (Len(statuses) < 4 /\ \A i \in 1..Len(statuses) : statuses[i] = 429)
    /\ (phase # "fetching" /\ statuses # <<>> /\ raised # "transport") =>
          /\ raised = "none"
          /\ Last(statuses) = 429 => Len(statuses) = 4
          /\ Last(statuses) # 200 => LastFetchedRows = <<>>

-----------------------------------------------------------------------------
(* Properties of the run's scoring, checked under Spec                      *)

\* every price and DOM the comps define is positive
PositiveComps ==
    \A i \in 1..Len(comps) :
        /\ comps[i].price # None => comps[i].price[1] > 0
        /\ comps[i].dom # None => comps[i].dom[1] > 0

CompPriceMedian == safe_median(TruthyField(comps, "price"))

CompDomMedian == safe_median(TruthyField(comps, "dom"))

\* C12: in a run that reaches the scoring, the subject price is the median of the
\* scored comps' prices and the subject DOM their rounded median DOM; so, the comps'
\* defined prices and DOMs being positive, the price deviation and the price penalty
\* are 0 and the band handed to suggestions_for is "Low", or "Unavailable" when no
\* comp has a price: never "Moderate" or "High".
C12_RunBandLowOrUnavailable ==
    (phase = "reported" /\ comps # <<>> /\ PositiveComps) =>
        /\ subject_price = CompPriceMedian
        /\ subject_dom = (IF CompDomMedian = None THEN None
                          ELSE Some(Q(RoundInt(CompDomMedian[1], 0))))
        /\ IF SomePricedComp
           THEN /\ DiffPct(subject_price[1], CompPriceMedian[1]) = Q(0)
                /\ risk.price_pen = Some(Q(0))
                /\ risk.band = "Low"
                /\ suggestions_for(risk.band) = "Low"
           ELSE /\ risk.band = "Unavailable"
                /\ suggestions_for(risk.band) = "Insufficient data"

\* a run scored comps of different prices whose median DOM is not a whole number:
\* the rounded subject DOM lies above it, the DOM penalty is positive, the band "Low"
C12_Witness ==
    /\ phase = "reported"
    /\ \E i, j \in 1..Len(comps) :
          /\ Truthy(comps[i].price) /\ Truthy(comps[j].price)
          /\ comps[i].price # comps[j].price
    /\ risk.dom_pen # None /\ RLt(Q(0), risk.dom_pen[1])
    /\ risk.band = "Low"

-----------------------------------------------------------------------------
(* Properties of the geocoding, checked under SpecGeo                       *)

AutoComplete == "SEARCH auto-complete"

\* this step received a geocoder's response: the note it appended
Noted(name, status) == geo_notes' = Append(geo_notes, <<name, status>>)

\* this step is the start of a resolve_to_latlon call that asks a geocoder
StartsResolving == phase # "resolving" /\ phase' = "resolving"

\* C11: an auto-complete response of status 403 sets the session flag and nothing
\* else does; the flag is never reset; while it is set no auto-complete request is
\* in flight and none is answered: a resolve_to_latlon call starts with the OSM
\* request, and goes from OSM on to Google (or to not-found), never to Realtor.
C11_DisabledAfter403 ==
    /\ [](disable_realtor_autocomplete => geocoder # "realtor")
    /\ [][ /\ Noted(AutoComplete, 403) => disable_realtor_autocomplete'
           /\ (~disable_realtor_autocomplete /\ disable_realtor_autocomplete')
                 => Noted(AutoComplete, 403)
           /\ disable_realtor_autocomplete =>
                 /\ disable_realtor_autocomplete'
                 /\ \A status \in GeoStatuses : ~Noted(AutoComplete, status)
                 /\ StartsResolving => (geocoder' = "osm" /\ geo_notes' = <<>>)
                 /\ (geocoder = "osm" /\ geocoder' # "osm") => geocoder' \in {"google", "none"}
         ]_vars

\* a run after the 403: the flag is set, the run's first note is the OSM response
\* and the Google request is in flight
C11_Witness ==
    /\ disable_realtor_autocomplete
    /\ phase = "resolving"
    /\ geocoder = "google"
    /\ Len(geo_notes) = 1
    /\ geo_notes[1][1] = "OSM nominatim"

====
